---- MODULE Spec2Model ----
(***************************************************************************)
(* A model of gotobrainfuck.py: the tokenizer (SourceCode, Code.parse),    *)
(* the execution context (Context: tape buffer, cursor, input, output and  *)
(* the cycle counter), the eight tokens and the interpreter loop           *)
(* (Code.exec), as driven by the entry point éxec.                         *)
(*                                                                         *)
(* Bytes of the program text are one-character strings; tape cells, input  *)
(* bytes and output bytes are integers.  A Python exception that leaves    *)
(* éxec is a terminal value of pc named after the exception class.         *)
(***************************************************************************)
EXTENDS Integers, Sequences, FiniteSets, TLC

\* ------------------------------------------------------------------ bounds
MaxLen == 2        \* longest program text enumerated in full
MaxFuel == 4       \* largest non-negative num_cycles_limit
MaxCap == 2        \* largest buffer_size
MaxInLen == 1      \* longest input stream content
MaxNegSteps == 5   \* how far below 0 the cycle counter is followed

\* --------------------------------------------------------- program constants
ByteMask == 255    \* Context.current_value setter: value & 255

ByteRange == ByteMask + 1

\* ------------------------------------------------------------------ inputs
InstructionBytes == {".", ",", "+", "-", ">", "<", "^", ";"}

SourceBytes == InstructionBytes \cup {"@"}

\* Program texts longer than MaxLen that the model also runs.
Scenarios ==
    { <<"+", "+", "+", ".", ";">>,
      <<"+", "+", "+", ".">>,
      <<",", ".", ";">>,
      <<"+", "@", ";">>,
      <<"+", ";", "@">>,
      <<"<", "+", ".", ">", "^", ";">>,
      <<",", ".", ",", ".", ";">>,
      <<"-", "^", ";">>,
      <<"+", "^", ";">>,
      <<",", "^", ";">>,
      <<",", "^", "+", ";">>,
      <<"+", "+", "^", ";">>,
      <<"-", "+", ";">>,
      <<"+", "-", "-", ";">>,
      <<",", "+", ".", ";">>,
      <<"-", ".", "+", ";">>,
      <<".", "+", ".", ";">>,
      <<">", "+", "<", ".", ";">>,
      <<">", ">", ">", ";">>,
      <<"<", "<", "<", ";">>,
      <<"-", ">", "-", "<", "+", ";">> }

SeqsUpTo(S, n) == UNION { [1..k -> S] : k \in 0..n }

\* A program text of ByteRange + 1 bytes: "-^", then "+" up to address
\* ByteMask, then ";" at address ByteRange (the first a GoTo cannot name).
LongProgram ==
    [i \in 1..(ByteRange + 1) |->
        IF i = 1 THEN "-" ELSE IF i = 2 THEN "^"
        ELSE IF i = ByteRange + 1 THEN ";" ELSE "+"]

Sources == SeqsUpTo(SourceBytes, MaxLen) \cup Scenarios \cup {LongProgram}

\* What a text stream delivers, as code points: bytes, and one above 255.
TextChars == {2, 65, 255, 8364}

\* What a binary stream delivers.
BinaryBytes == {65}

\* input_file: None; a text stream (io.StringIO, sys.stdin); a real binary
\* stream (io.BytesIO, sys.stdin.buffer), which is no instance of
\* typing.BinaryIO; an instance of a class derived from typing.BinaryIO.
InputFiles ==
    { [kind |-> "None", data |-> <<>>, pos |-> 0] }
    \cup { [kind |-> "TextIO", data |-> d, pos |-> 0] : d \in SeqsUpTo(TextChars, MaxInLen) }
    \cup { [kind |-> "BytesIO", data |-> d, pos |-> 0] : d \in SeqsUpTo(BinaryBytes, MaxInLen) }
    \cup { [kind |-> "BinaryIO", data |-> d, pos |-> 0] : d \in SeqsUpTo(BinaryBytes, MaxInLen) }

\* output_file: a binary sink (io.BytesIO, a file opened "wb"), or a text
\* sink that is an io.TextIOWrapper (sys.stdout, a file opened "w") with
\* Python's default encoding, UTF-8. data is what has reached the sink's
\* binary end. (An io.StringIO goes the way of the TextIOWrapper in
\* Context.write and keeps the characters as they are.)
OutputFiles ==
    { [kind |-> "BytesIO", data |-> <<>>], [kind |-> "TextIOWrapper", data |-> <<>>] }

\* buffer_size >= 1: the tape has a cell under the cursor.
BufferSizes == 1..MaxCap

\* num_cycles_limit is a signed int: the non-negative limits, and a negative one.
CycleLimits == (0..MaxFuel) \cup {-1}

\* ------------------------------------------------------------------- state
VARIABLES
    pc,               \* where éxec is: "parse", "exec", or how it ended
    source_code,      \* SourceCode: [code, ptr]
    tokens,           \* Code.parse: the local list tokens
    code,             \* éxec: the Code object, <<>> before it exists, else <<its tokens>>
    code_pt,          \* Code.exec: the instruction address
    buffer,           \* Context.buffer (1-based here: buffer[ptr + 1])
    ptr,              \* Context.ptr
    input_file,       \* Context.input_file: [kind, data, pos]
    output_file,      \* Context.output_file: [kind, data]
    num_cycles_left,  \* Context.num_cycles_left
    num_cycles_limit, \* éxec's argument num_cycles_limit
    dispatched,       \* history: number of token.exec calls made
    last,             \* history: the last token.exec call [token, at, cell, cursor]
    reads,            \* history: number of ReadToken.exec calls made
    printed,          \* history: the cell value at each PrintToken.exec call, in order
    ideal             \* history: per cell, its value counted in unbounded integers

vars == << pc, source_code, tokens, code, code_pt, buffer, ptr, input_file,
           output_file, num_cycles_left, num_cycles_limit, dispatched, last,
           reads, printed, ideal >>

ctxvars == << buffer, ptr, input_file, output_file, num_cycles_left >>

histvars == << dispatched, last, reads, printed, ideal >>

Terminal == {"halted", "SyntaxError", "TimeoutError", "IndexError", "TypeError", "ValueError"}

\* ------------------------------------------------------------ SourceCode
\* A reader that moves on by two bytes for each byte it returns.
read_next_token_Skip(sc) ==
    [token |-> IF sc.ptr >= 0 /\ sc.ptr < Len(sc.code) THEN << sc.code[sc.ptr + 1] >> ELSE <<>>,
     sc |-> [sc EXCEPT !.ptr = sc.ptr + 2]]

\* code[ptr:ptr+1]: a slice, empty when ptr is at or past the end.
Slice1(s, p) == IF p >= 0 /\ p < Len(s) THEN << s[p + 1] >> ELSE <<>>

read_next_token(sc) ==
    [token |-> Slice1(sc.code, sc.ptr), sc |-> [sc EXCEPT !.ptr = sc.ptr + 1]]

\* ------------------------------------------------------------- Code.parse
\* A chain whose else branch makes a token instead of raising SyntaxError.
TokenOf_NoElse(b) ==
    CASE b = "." -> "PrintToken"
      [] b = "," -> "ReadToken"
      [] b = "+" -> "PlusToken"
      [] b = "-" -> "MinusToken"
      [] b = ">" -> "ForwardToken"
      [] b = "<" -> "BackwardToken"
      [] b = "^" -> "GoToToken"
      [] OTHER -> "ExitToken"

\* The if/elif chain of Code.parse: the token class of a byte, "" for the
\* else branch (raise SyntaxError).
TokenOf(b) ==
    CASE b = "." -> "PrintToken"
      [] b = "," -> "ReadToken"
      [] b = "+" -> "PlusToken"
      [] b = "-" -> "MinusToken"
      [] b = ">" -> "ForwardToken"
      [] b = "<" -> "BackwardToken"
      [] b = "^" -> "GoToToken"
      [] b = ";" -> "ExitToken"
      [] OTHER -> ""

\* ---------------------------------------------------------------- Context
\* A context value: the fields of Context the tokens read and write.
Ctx == [buffer |-> buffer, ptr |-> ptr, input_file |-> input_file,
        output_file |-> output_file]

\* bytearray([0]) * buffer_size
NewBuffer(buffer_size) == [i \in 1..buffer_size |-> 0]

current_value(c) == c.buffer[c.ptr + 1]

\* A setter that saturates at the ends of the byte range instead of wrapping.
And255_Saturate(value) ==
    IF value < 0 THEN 0 ELSE IF value > ByteMask THEN ByteMask ELSE value

\* value & 255 for a Python int of either sign.
And255(value) == value % ByteRange

set_current_value(c, value) ==
    [c EXCEPT !.buffer = [c.buffer EXCEPT ![c.ptr + 1] = And255(value)]]

\* A setter that stops at the ends of the tape instead of wrapping.
ModLen_Stop(value, n) == IF value < 0 THEN 0 ELSE IF value >= n THEN n - 1 ELSE value

\* value % len(self.buffer)
ModLen(value, n) == value % n

set_pointer(c, value) == [c EXCEPT !.ptr = ModLen(value, Len(c.buffer))]

\* stream.read(1): at most one unit from the stream, which moves on by it.
StreamRead1(f) ==
    IF f.pos < Len(f.data)
    THEN [data |-> << f.data[f.pos + 1] >>, f |-> [f EXCEPT !.pos = f.pos + 1]]
    ELSE [data |-> <<>>, f |-> f]

\* isinstance(self.input_file, BinaryIO), BinaryIO being typing.BinaryIO:
\* false of io.BytesIO and of every other stream the io module makes.
IsTypingBinaryIO(f) == f.kind = "BinaryIO"

\* Context.read(1): [exc, bytes, f], f the input file afterwards.
ContextRead(f) ==
    IF f.kind = "None" THEN [exc |-> "", bytes |-> <<>>, f |-> f]
    ELSE LET r == StreamRead1(f) IN
         IF IsTypingBinaryIO(f) THEN [exc |-> "", bytes |-> r.data, f |-> r.f]
         ELSE IF r.data = <<>> THEN [exc |-> "", bytes |-> <<>>, f |-> r.f]
         \* bytes(map(ord, data)): ord of an int (an item of a bytes object)
         \* raises TypeError; a code point above 255 makes bytes() raise
         \* ValueError.
         ELSE IF f.kind = "BytesIO" THEN [exc |-> "TypeError", bytes |-> <<>>, f |-> r.f]
         ELSE IF r.data[1] >= ByteRange THEN [exc |-> "ValueError", bytes |-> <<>>, f |-> r.f]
         ELSE [exc |-> "", bytes |-> r.data, f |-> r.f]

\* The isinstance chain of Context.write (typing.TextIO, TextIOWrapper,
\* StringIO): true of the text sink.
IsTextSink(o) == o.kind = "TextIOWrapper"

\* "".join(map(chr, bytes_)): the string, as the code points of its
\* characters; chr(b) is the character of code point b.
StrOfBytes(bytes_) == [i \in 1..Len(bytes_) |-> bytes_[i]]

\* The UTF-8 encoding of one character: one byte below 128, two bytes below
\* 2048, three above.
Utf8Char(cp) ==
    IF cp < 128 THEN << cp >>
    ELSE IF cp < 2048 THEN << 192 + (cp \div 64), 128 + (cp % 64) >>
    ELSE << 224 + (cp \div 4096), 128 + ((cp \div 64) % 64), 128 + (cp % 64) >>

\* A text sink's write(string_) and flush(): the encoded characters reach
\* the binary end.
RECURSIVE TextWrite(_, _)
TextWrite(data, string_) ==
    IF string_ = <<>> THEN data
    ELSE TextWrite(data \o Utf8Char(Head(string_)), Tail(string_))

\* Context.write(bytes_): the string of the bytes to a text sink, the bytes
\* themselves to any other, then flush.
ContextWrite(c, bytes_) ==
    IF IsTextSink(c.output_file)
    THEN [c EXCEPT !.output_file.data = TextWrite(c.output_file.data, StrOfBytes(bytes_))]
    ELSE [c EXCEPT !.output_file.data = c.output_file.data \o bytes_]

\* ----------------------------------------------------------------- tokens
\* Token.exec(context): [ctx, pt, exc]; pt is the returned int.
Result(c, pt) == [ctx |-> c, pt |-> pt, exc |-> ""]

GoToTokenExec(c) == Result(c, current_value(c))

PlusTokenExec(c) == Result(set_current_value(c, current_value(c) + 1), -1)

MinusTokenExec(c) == Result(set_current_value(c, current_value(c) - 1), -1)

ForwardTokenExec(c) == Result(set_pointer(c, c.ptr + 1), -1)

BackwardTokenExec(c) == Result(set_pointer(c, c.ptr - 1), -1)

PrintTokenExec(c) == Result(ContextWrite(c, << current_value(c) >>), -1)

\* context.current_value = ord(context.read(1) or b"\0")
ReadTokenExec(c) ==
    LET r == ContextRead(c.input_file)
        c1 == [c EXCEPT !.input_file = r.f]
    IN  IF r.exc # "" THEN [ctx |-> c1, pt |-> -1, exc |-> r.exc]
        ELSE Result(set_current_value(c1, IF r.bytes = <<>> THEN 0 ELSE r.bytes[1]), -1)

\* The method the call token.exec(context) resolves to.
TokenExec(token, c) ==
    CASE token = "GoToToken" -> GoToTokenExec(c)
      [] token = "PlusToken" -> PlusTokenExec(c)
      [] token = "MinusToken" -> MinusTokenExec(c)
      [] token = "ForwardToken" -> ForwardTokenExec(c)
      [] token = "BackwardToken" -> BackwardTokenExec(c)
      [] token = "PrintToken" -> PrintTokenExec(c)
      [] token = "ReadToken" -> ReadTokenExec(c)

\* Context.exec: the test num_cycles_left == 0 that raises TimeoutError.
OutOfCycles(n) == n = 0

\* A count that takes two cycles per instruction.
CyclesAfter_Two(n) == n - 2

\* Context.exec: self.num_cycles_left -= 1
CyclesAfter(n) == n - 1

\* -------------------------------------------------------------- Code.exec
\* A fetch that wraps the address around the program instead of failing.
Fetch_Wrap(toks, i) ==
    IF toks = <<>> THEN "IndexError" ELSE toks[(i % Len(toks)) + 1]

\* self.tokens[code_pt] on a tuple: a negative index counts from the end;
\* outside [-len, len) the fetch raises IndexError.
Fetch(toks, i) ==
    IF 0 <= i /\ i < Len(toks) THEN toks[i + 1]
    ELSE IF -Len(toks) <= i /\ i < 0 THEN toks[Len(toks) + i + 1]
    ELSE "IndexError"

\* A loop that takes a returned 0 for the advance signal.
NextCodePt_ZeroAdvances(cp, pt) == IF pt <= 0 THEN cp + 1 ELSE pt

\* A loop that takes the returned value for an offset from the address.
NextCodePt_Relative(cp, pt) == IF pt < 0 THEN cp + 1 ELSE cp + pt

\* code_pt + 1 if pt < 0 else pt
NextCodePt(cp, pt) == IF pt < 0 THEN cp + 1 ELSE pt

\* A loop that calls Context.exec for the ExitToken too before it stops: the
\* halt costs a cycle.
Turn_CountsExit(toks, m) ==
    LET token == Fetch(toks, m.code_pt) IN
    IF token = "IndexError" THEN [m EXCEPT !.pc = "IndexError"]
    ELSE IF token = "ExitToken"
         THEN [m EXCEPT !.pc = "halted", !.num_cycles_left = CyclesAfter(@)]
    ELSE IF OutOfCycles(m.num_cycles_left) THEN [m EXCEPT !.pc = "TimeoutError"]
    ELSE LET r == TokenExec(token, m.ctx) IN
         [pc |-> IF r.exc # "" THEN r.exc ELSE "exec",
          code_pt |-> IF r.exc # "" THEN m.code_pt ELSE NextCodePt(m.code_pt, r.pt),
          ctx |-> r.ctx,
          num_cycles_left |-> CyclesAfter(m.num_cycles_left),
          dispatched |-> m.dispatched + 1]

\* A loop in which a GoTo costs no cycle.
Turn_FreeGoTo(toks, m) ==
    LET token == Fetch(toks, m.code_pt) IN
    IF token = "IndexError" THEN [m EXCEPT !.pc = "IndexError"]
    ELSE IF token = "ExitToken" THEN [m EXCEPT !.pc = "halted"]
    ELSE IF OutOfCycles(m.num_cycles_left) THEN [m EXCEPT !.pc = "TimeoutError"]
    ELSE LET r == TokenExec(token, m.ctx) IN
         [pc |-> IF r.exc # "" THEN r.exc ELSE "exec",
          code_pt |-> IF r.exc # "" THEN m.code_pt ELSE NextCodePt(m.code_pt, r.pt),
          ctx |-> r.ctx,
          num_cycles_left |-> IF token = "GoToToken" THEN m.num_cycles_left
                              ELSE CyclesAfter(m.num_cycles_left),
          dispatched |-> m.dispatched + 1]

\* A loop that tests the cycle counter before it fetches.
Turn_CycleTestFirst(toks, m) ==
    LET token == Fetch(toks, m.code_pt) IN
    IF OutOfCycles(m.num_cycles_left) THEN [m EXCEPT !.pc = "TimeoutError"]
    ELSE IF token = "IndexError" THEN [m EXCEPT !.pc = "IndexError"]
    ELSE IF token = "ExitToken" THEN [m EXCEPT !.pc = "halted"]
    ELSE LET r == TokenExec(token, m.ctx) IN
         [pc |-> IF r.exc # "" THEN r.exc ELSE "exec",
          code_pt |-> IF r.exc # "" THEN m.code_pt ELSE NextCodePt(m.code_pt, r.pt),
          ctx |-> r.ctx,
          num_cycles_left |-> CyclesAfter(m.num_cycles_left),
          dispatched |-> m.dispatched + 1]

\* One turn of the while loop of Code.exec on the machine m = [pc, code_pt,
\* ctx, num_cycles_left, dispatched]: the fetch, the ExitToken test, then
\* Context.exec (the cycle test, the count, token.exec) and the new code_pt.
Turn(toks, m) ==
    LET token == Fetch(toks, m.code_pt) IN
    IF token = "IndexError" THEN [m EXCEPT !.pc = "IndexError"]
    ELSE IF token = "ExitToken" THEN [m EXCEPT !.pc = "halted"]
    ELSE IF OutOfCycles(m.num_cycles_left) THEN [m EXCEPT !.pc = "TimeoutError"]
    ELSE LET r == TokenExec(token, m.ctx) IN
         [pc |-> IF r.exc # "" THEN r.exc ELSE "exec",
          code_pt |-> IF r.exc # "" THEN m.code_pt ELSE NextCodePt(m.code_pt, r.pt),
          ctx |-> r.ctx,
          num_cycles_left |-> CyclesAfter(m.num_cycles_left),
          dispatched |-> m.dispatched + 1]

\* Code.exec from machine m, for at most k turns of its loop.
RECURSIVE Run(_, _, _)
Run(toks, m, k) ==
    IF k = 0 \/ m.pc # "exec" THEN m ELSE Run(toks, Turn(toks, m), k - 1)

\* The machine as code.exec(context) starts on a Context just constructed.
StartMachine(buffer_size, f, o, limit) ==
    [pc |-> "exec", code_pt |-> 0,
     ctx |-> [buffer |-> NewBuffer(buffer_size), ptr |-> 0, input_file |-> f,
              output_file |-> o],
     num_cycles_left |-> limit, dispatched |-> 0]

Machine == [pc |-> pc, code_pt |-> code_pt, ctx |-> Ctx,
            num_cycles_left |-> num_cycles_left, dispatched |-> dispatched]

\* ------------------------------------------------------------------- Init
\* éxec has built the Context and the SourceCode and is about to parse.
Init ==
    /\ pc = "parse"
    /\ \E s \in Sources : source_code = [code |-> s, ptr |-> 0]
    /\ tokens = <<>>
    /\ code = <<>>
    /\ code_pt = 0
    /\ \E n \in BufferSizes : buffer = NewBuffer(n) /\ ideal = NewBuffer(n)
    /\ ptr = 0
    /\ input_file \in InputFiles
    /\ output_file \in OutputFiles
    /\ num_cycles_limit \in CycleLimits
    /\ num_cycles_left = num_cycles_limit
    /\ dispatched = 0
    /\ last = [token |-> "", at |-> 0, cell |-> 0, cursor |-> 0]
    /\ reads = 0
    /\ printed = <<>>

\* ---------------------------------------------------------------- actions
\* Code.parse, one turn of its while loop with a recognised byte.
ParseToken ==
    /\ pc = "parse"
    /\ LET r == read_next_token(source_code) IN
       /\ r.token # <<>>
       /\ TokenOf(r.token[1]) # ""
       /\ source_code' = r.sc
       /\ tokens' = Append(tokens, TokenOf(r.token[1]))
    /\ UNCHANGED << pc, code, code_pt, ctxvars, num_cycles_limit, histvars >>

\* Code.parse, the else branch: raise SyntaxError.
ParseSyntaxError ==
    /\ pc = "parse"
    /\ LET r == read_next_token(source_code) IN
       /\ r.token # <<>>
       /\ TokenOf(r.token[1]) = ""
       /\ source_code' = r.sc
    /\ pc' = "SyntaxError"
    /\ UNCHANGED << tokens, code, code_pt, ctxvars, num_cycles_limit, histvars >>

\* Code.parse, the empty token ends the loop: return Code(tokens); éxec
\* calls code.exec(context), which sets code_pt = 0.
ParseEnd ==
    /\ pc = "parse"
    /\ LET r == read_next_token(source_code) IN
       /\ r.token = <<>>
       /\ source_code' = r.sc
    /\ code' = << tokens >>
    /\ code_pt' = 0
    /\ pc' = "exec"
    /\ UNCHANGED << tokens, ctxvars, num_cycles_limit, histvars >>

\* The history kept beside a turn that calls token.exec.
IdealAfter(token, m, after) ==
    CASE token = "PlusToken" -> [ideal EXCEPT ![m.ctx.ptr + 1] = @ + 1]
      [] token = "MinusToken" -> [ideal EXCEPT ![m.ctx.ptr + 1] = @ - 1]
      [] token = "ReadToken" /\ after.pc = "exec" ->
            [ideal EXCEPT ![m.ctx.ptr + 1] = current_value(after.ctx)]
      [] OTHER -> ideal

\* A turn of the loop of Code.exec whose fetch gives `fetched`.
TurnOn(fetched) ==
    /\ pc = "exec"
    /\ Fetch(code[1], code_pt) = fetched
    /\ LET m == Turn(code[1], Machine) IN
       /\ pc' = m.pc
       /\ code_pt' = m.code_pt
       /\ buffer' = m.ctx.buffer
       /\ ptr' = m.ctx.ptr
       /\ input_file' = m.ctx.input_file
       /\ output_file' = m.ctx.output_file
       /\ num_cycles_left' = m.num_cycles_left
       /\ dispatched' = m.dispatched
       /\ IF m.dispatched = dispatched
          THEN UNCHANGED << last, reads, printed, ideal >>
          ELSE /\ last' = [token |-> fetched, at |-> code_pt,
                           cell |-> current_value(Ctx), cursor |-> ptr]
               /\ reads' = IF fetched = "ReadToken" THEN reads + 1 ELSE reads
               /\ printed' = IF fetched = "PrintToken"
                             THEN Append(printed, current_value(Ctx)) ELSE printed
               /\ ideal' = IdealAfter(fetched, Machine, m)
    /\ UNCHANGED << source_code, tokens, code, num_cycles_limit >>

\* Code.exec: the fetch self.tokens[code_pt] raises IndexError.
FetchIndexError ==
    /\ pc = "exec"
    /\ TurnOn("IndexError")

\* Code.exec: the fetched token is an ExitToken, the while loop ends.
ExecExit ==
    /\ pc = "exec"
    /\ TurnOn("ExitToken")

\* Context.exec: num_cycles_left == 0, raise TimeoutError.
ExecTimeout ==
    /\ OutOfCycles(num_cycles_left)
    /\ \E cls \in {"GoToToken", "PlusToken", "MinusToken", "ForwardToken",
                   "BackwardToken", "PrintToken", "ReadToken"} : TurnOn(cls)

\* A turn that dispatches a token of class cls. A counter that started
\* below 0 never meets 0: it is followed down to -MaxNegSteps - 1.
Dispatch(cls) ==
    /\ ~OutOfCycles(num_cycles_left)
    /\ -num_cycles_left <= MaxNegSteps
    /\ TurnOn(cls)

ExecGoTo ==
    /\ pc = "exec"
    /\ Dispatch("GoToToken")

ExecPlus ==
    /\ pc = "exec"
    /\ Dispatch("PlusToken")

ExecMinus ==
    /\ pc = "exec"
    /\ Dispatch("MinusToken")

ExecForward ==
    /\ pc = "exec"
    /\ Dispatch("ForwardToken")

ExecBackward ==
    /\ pc = "exec"
    /\ Dispatch("BackwardToken")

ExecPrint ==
    /\ pc = "exec"
    /\ Dispatch("PrintToken")

ExecRead ==
    /\ pc = "exec"
    /\ Dispatch("ReadToken")

Next ==
    \/ ParseToken
    \/ ParseSyntaxError
    \/ ParseEnd
    \/ FetchIndexError
    \/ ExecExit
    \/ ExecTimeout
    \/ ExecGoTo
    \/ ExecPlus
    \/ ExecMinus
    \/ ExecForward
    \/ ExecBackward
    \/ ExecPrint
    \/ ExecRead

Spec == Init /\ [][Next]_vars

\* The interpreter is one sequential thread: a turn that can be taken is taken.
FairSpec == Init /\ [][Next]_vars /\ WF_vars(Next)

\* ------------------------------------------------------------------ claims
\* The input stream holds bytes only (every unit it delivers is in 0..255).
InputIsBytes == \A i \in 1..Len(input_file.data) : input_file.data[i] \in 0..ByteMask

\* The run of éxec has ended.
Ended == pc \in Terminal

\* C1: with a fuel limit >= 0 and an input of bytes, a run of éxec that has
\* ended has ended in one of exactly four outcomes: a clean halt at an
\* ExitToken, SyntaxError, TimeoutError or the IndexError of an out-of-range
\* fetch. (pc holds one value, so no run ends in two of them.)
C1_FourOutcomes ==
    (num_cycles_limit >= 0 /\ InputIsBytes /\ Ended)
        => pc \in {"halted", "SyntaxError", "TimeoutError", "IndexError"}

\* C2: for every program, every input of bytes and every fuel limit F >= 0,
\* Code.exec terminates by an ExitToken, by TimeoutError or by the IndexError
\* of an out-of-range fetch, having dispatched at most F instructions: a run
\* of Code.exec that has ended has ended in one of these three ways, within
\* the fuel.
C2_EndsByHaltTimeoutOrFetch ==
    (Ended /\ pc # "SyntaxError" /\ num_cycles_limit >= 0 /\ InputIsBytes)
        => /\ pc \in {"halted", "TimeoutError", "IndexError"}
           /\ dispatched <= num_cycles_limit

\* C2, the part the code keeps (checked under FairSpec): with a fuel limit
\* F >= 0 Code.exec always comes to an end, by one of the three ways or by an
\* exception out of ReadToken.exec, and never dispatches more than F
\* instructions, Goto cycles included.
C2_EndsWithinFuel ==
    /\ [](num_cycles_limit >= 0 => dispatched <= num_cycles_limit)
    /\ [](pc = "exec" /\ num_cycles_limit >= 0 => <>(Ended /\ pc # "SyntaxError"))

\* The turns followed of the run with unlimited fuel: enough for every halt
\* that a limit of at most MaxFuel + 1 instructions can fall short of.
RefTurns == MaxFuel + 2

\* The run of the parsed program on this input and tape size with unlimited
\* fuel (a counter that starts below 0 never meets 0), for at most k turns.
FreeRun(k) ==
    Run(code[1],
        StartMachine(Len(buffer), [input_file EXCEPT !.pos = 0],
                     [output_file EXCEPT !.data = <<>>], -1),
        k)

\* With unlimited fuel the program reaches an ExitToken, after dispatching
\* FreeRun(RefTurns).dispatched instructions and without any error.
FreeRunHalts == code # <<>> /\ FreeRun(RefTurns).pc = "halted"

\* C3: fuel monotonicity. If the program, run with unlimited fuel, reaches
\* an ExitToken after dispatching exactly N instructions, then the run with
\* fuel limit F >= N halts (after N instructions, with the same output), and
\* the run with F < N ends in TimeoutError after exactly F instructions, with
\* the counter at 0 and with the output those F instructions produced; so
\* "^;" with limit F ends in TimeoutError after F GoToToken dispatches and
\* no output.
C3_FuelMonotonicity ==
    (Ended /\ num_cycles_limit >= 0 /\ code # <<>>) =>
        LET N == FreeRun(RefTurns).dispatched
            F == num_cycles_limit
        IN  /\ (FreeRunHalts /\ F >= N) =>
                    /\ pc = "halted"
                    /\ dispatched = N
                    /\ output_file = FreeRun(RefTurns).ctx.output_file
            /\ (FreeRunHalts /\ F < N) =>
                    /\ pc = "TimeoutError"
                    /\ dispatched = F
                    /\ num_cycles_left = 0
                    /\ output_file = FreeRun(F).ctx.output_file
            /\ source_code.code = <<"^", ";">> =>
                    /\ pc = "TimeoutError"
                    /\ dispatched = F
                    /\ num_cycles_left = 0
                    /\ last.token \in {"", "GoToToken"}
                    /\ output_file.data = <<>>

\* C3 witness: a run that fell short of the halt (F < N) after dispatching
\* at least two instructions, one of them a PrintToken.
C3_Witness_ShortOfHalt ==
    /\ pc = "TimeoutError"
    /\ FreeRunHalts
    /\ num_cycles_limit < FreeRun(RefTurns).dispatched
    /\ dispatched = num_cycles_limit
    /\ dispatched >= 2
    /\ output_file.data # <<>>

\* A run with F >= N >= 3 that halted.
C3_Reach_EnoughFuel ==
    /\ pc = "halted"
    /\ num_cycles_limit >= dispatched
    /\ dispatched >= 3
    /\ FreeRunHalts

\* The instruction address is inside [0, len(Program)).
AddressInRange == 0 <= code_pt /\ code_pt < Len(code[1])

\* C4: whenever the instruction address is outside [0, len(Program)) at the
\* start of a turn of Code.exec, the fetch fails with IndexError: the turn
\* does not halt, wraps to no other instruction and changes nothing else.
\* So the empty program fails at address 0, and "+++." fails at address 4
\* after printing byte 3 (when the fuel lets it get there).
C4_OutOfRangeFetchFails ==
    /\ [][(pc = "exec" /\ ~AddressInRange)
             => /\ pc' = "IndexError"
                /\ UNCHANGED << code_pt, code, ctxvars, histvars >>]_vars
    /\ []((Ended /\ source_code.code = <<>>)
             => pc = "IndexError" /\ code_pt = 0 /\ dispatched = 0)
    /\ []((Ended /\ source_code.code = <<"+", "+", "+", ".">>
                 /\ num_cycles_limit \notin 0..3)
             => pc = "IndexError" /\ code_pt = 4 /\ output_file.data = <<3>>)

\* C4 witness: a GoToToken has jumped to a cell value V >= len(Program) and
\* the fetch there has failed.
C4_Witness_GotoOutOfRange ==
    /\ pc = "IndexError"
    /\ last.token = "GoToToken"
    /\ code_pt = last.cell
    /\ code_pt > Len(code[1])

\* The run has advanced past the last instruction and the fetch has failed.
C4_Reach_PastEnd ==
    /\ pc = "IndexError"
    /\ code_pt = 4
    /\ output_file.data = <<3>>

\* The eight instruction bytes of the language.
IsInstruction(b) == b \in {".", ",", "+", "-", ">", "<", "^", ";"}

\* The 1-based positions of the source bytes that are no instruction.
BadPositions ==
    { i \in 1..Len(source_code.code) : ~IsInstruction(source_code.code[i]) }

FirstBad == CHOOSE i \in BadPositions : \A j \in BadPositions : i <= j

\* C5: if the source holds any byte other than the eight instruction bytes,
\* at whatever position, the run can only end in SyntaxError, raised when
\* the first such byte is read; no Code object is made and no instruction
\* is dispatched: the tape stays all zero, the cursor 0, the cycle counter
\* at its initial value, the input unread and the output empty.
C5_SyntaxErrorBeforeExecution ==
    BadPositions # {} =>
        /\ pc \in {"parse", "SyntaxError"}
        /\ pc = "SyntaxError" => source_code.ptr = FirstBad
        /\ pc = "parse" => source_code.ptr < FirstBad
        /\ code = <<>>
        /\ dispatched = 0
        /\ \A i \in 1..Len(buffer) : buffer[i] = 0
        /\ ptr = 0
        /\ num_cycles_left = num_cycles_limit
        /\ input_file.pos = 0
        /\ output_file.data = <<>>

\* C5 witness: SyntaxError raised at a bad byte that follows an ExitToken,
\* with instructions parsed before it and input waiting.
C5_Witness_BadByteAfterHalt ==
    /\ pc = "SyntaxError"
    /\ source_code.code = <<"+", ";", "@">>
    /\ source_code.ptr = 3
    /\ input_file.data # <<>>

\* The table of the language: the opcode of each instruction byte.
OpcodeOf(b) ==
    CASE b = "." -> "Print"
      [] b = "," -> "Read"
      [] b = "+" -> "Increment"
      [] b = "-" -> "Decrement"
      [] b = ">" -> "StepForward"
      [] b = "<" -> "StepBackward"
      [] b = "^" -> "Goto"
      [] b = ";" -> "Halt"

\* The opcode a token class implements.
OpcodeOfToken(t) ==
    CASE t = "PrintToken" -> "Print"
      [] t = "ReadToken" -> "Read"
      [] t = "PlusToken" -> "Increment"
      [] t = "MinusToken" -> "Decrement"
      [] t = "ForwardToken" -> "StepForward"
      [] t = "BackwardToken" -> "StepBackward"
      [] t = "GoToToken" -> "Goto"
      [] t = "ExitToken" -> "Halt"
      [] OTHER -> "none"

\* C6: for a source made only of the eight instruction bytes, Code.parse
\* never raises SyntaxError, the tokens it has collected are at every moment
\* the table images of the bytes read so far, in order, and the Code it
\* returns has exactly the length of the source (nothing dropped, duplicated
\* or appended); the empty source gives the empty program.
C6_ParseIsTableImage ==
    BadPositions = {} =>
        /\ pc # "SyntaxError"
        /\ pc = "parse" =>
              /\ code = <<>>
              /\ Len(tokens) = source_code.ptr
              /\ Len(tokens) <= Len(source_code.code)
        /\ pc # "parse" =>
              /\ code = << tokens >>
              /\ Len(code[1]) = Len(source_code.code)
        /\ \A i \in 1..Len(tokens) :
              OpcodeOfToken(tokens[i]) = OpcodeOf(source_code.code[i])

\* C6 witness: a source of several different instruction bytes, ending in no
\* Halt, has been parsed.
C6_Witness_Parsed ==
    /\ pc = "exec"
    /\ dispatched = 0
    /\ source_code.code = <<"+", "+", "+", ".">>
    /\ code = << <<"PlusToken", "PlusToken", "PlusToken", "PrintToken">> >>

\* The empty source has given the empty program.
C6_Reach_EmptyProgram == pc = "exec" /\ source_code.code = <<>> /\ code = << <<>> >>

\* The turn about to be taken dispatches a token of class cls.
Dispatching(cls) ==
    /\ pc = "exec"
    /\ AddressInRange
    /\ code[1][code_pt + 1] = cls
    /\ num_cycles_left # 0

\* C7: Goto determinism. In every reachable state, dispatching a GoToToken
\* sets the instruction address to exactly the value V of the cell under the
\* cursor, for V = 0 too (a jump to address 0, not an advance), whatever
\* the current address and the history; it changes no tape cell, not the
\* cursor and not the output, and the run goes on.
C7_GotoJumpsToCellValue ==
    [][Dispatching("GoToToken")
          => /\ code_pt' = buffer[ptr + 1]
             /\ code_pt' \in 0..ByteMask
             /\ pc' = "exec"
             /\ UNCHANGED << buffer, ptr, output_file, input_file >>]_vars

\* C7 witness: a GoToToken at an address other than 0 has jumped to address
\* 0, the value of its cell.
C7_Witness_JumpToZero ==
    /\ pc = "exec"
    /\ last.token = "GoToToken"
    /\ last.at > 0
    /\ last.cell = 0
    /\ code_pt = 0

\* A GoToToken has jumped forward to a cell value that came from the input.
C7_Reach_JumpToInputValue ==
    /\ pc = "exec"
    /\ last.token = "GoToToken"
    /\ last.at = 1
    /\ last.cell = 2
    /\ code_pt = 2
    /\ reads = 1

\* C8: cell wrap. In every reachable state every tape cell holds a value in
\* [0, 255], equal modulo 256 to its value counted in unbounded integers
\* (0 at the start, + 1 per Increment, - 1 per Decrement, the stored byte at
\* a Read): a cell only incremented and decremented holds (Increments -
\* Decrements) mod 256. Increment on 255 gives 0, Decrement on 0 gives 255,
\* and neither ends the run.
C8_CellWrap ==
    /\ [](\A i \in 1..Len(buffer) :
             /\ buffer[i] \in 0..255
             /\ buffer[i] = ideal[i] % 256)
    /\ [][Dispatching("PlusToken")
             => /\ pc' = "exec"
                /\ buffer'[ptr + 1] = IF buffer[ptr + 1] = 255 THEN 0 ELSE buffer[ptr + 1] + 1
                /\ ideal'[ptr + 1] = ideal[ptr + 1] + 1]_vars
    /\ [][Dispatching("MinusToken")
             => /\ pc' = "exec"
                /\ buffer'[ptr + 1] = IF buffer[ptr + 1] = 0 THEN 255 ELSE buffer[ptr + 1] - 1
                /\ ideal'[ptr + 1] = ideal[ptr + 1] - 1]_vars

\* C8 witness: a Decrement on 0 has given 255 and the run goes on.
C8_Witness_DecrementOnZero ==
    /\ pc = "exec"
    /\ last.token = "MinusToken"
    /\ last.cell = 0
    /\ buffer[ptr + 1] = 255
    /\ ideal[ptr + 1] = -1

\* An Increment on 255 has given 0: from above (255 read, then + 1) ...
C8_Reach_IncrementOn255 ==
    /\ pc = "exec"
    /\ last.token = "PlusToken"
    /\ last.cell = 255
    /\ buffer[ptr + 1] = 0
    /\ ideal[ptr + 1] = 256

\* ... and back from below (- 1, then + 1).
C8_Reach_BackToZero ==
    /\ pc = "exec"
    /\ last.token = "PlusToken"
    /\ last.cell = 255
    /\ buffer[ptr + 1] = 0
    /\ ideal[ptr + 1] = 0

\* C9: cursor wrap. For every tape capacity C >= 1 the cursor is in [0, C) in
\* every reachable state and the capacity never changes; StepForward moves
\* the cursor from C - 1 to 0 and otherwise up by one, StepBackward from 0 to
\* C - 1 and otherwise down by one (with C = 1 both leave it at 0), and
\* neither ends the run.
C9_CursorWrap ==
    /\ [](Len(buffer) >= 1 /\ ptr \in 0..(Len(buffer) - 1))
    /\ [][Len(buffer') = Len(buffer)]_vars
    /\ [][Dispatching("ForwardToken")
             => /\ pc' = "exec"
                /\ ptr' = IF ptr = Len(buffer) - 1 THEN 0 ELSE ptr + 1]_vars
    /\ [][Dispatching("BackwardToken")
             => /\ pc' = "exec"
                /\ ptr' = IF ptr = 0 THEN Len(buffer) - 1 ELSE ptr - 1]_vars

\* C9 witness: on a tape of more than one cell, a StepBackward at cursor 0
\* has put the cursor on the last cell.
C9_Witness_BackwardFromZero ==
    /\ pc = "exec"
    /\ Len(buffer) >= 2
    /\ last.token = "BackwardToken"
    /\ last.cursor = 0
    /\ ptr = Len(buffer) - 1

\* A StepForward at the last cell of such a tape has put the cursor on 0.
C9_Reach_ForwardFromLast ==
    /\ pc = "exec"
    /\ Len(buffer) >= 2
    /\ last.token = "ForwardToken"
    /\ last.cursor = Len(buffer) - 1
    /\ ptr = 0

\* On a tape of one cell a step has left the cursor at 0.
C9_Reach_OneCell ==
    /\ pc = "exec"
    /\ Len(buffer) = 1
    /\ last.token \in {"ForwardToken", "BackwardToken"}
    /\ ptr = 0

\* The k-th byte of the input, 0 when the input has no k-th byte.
InputByte(k) == IF k <= Len(input_file.data) THEN input_file.data[k] ELSE 0

\* The state right after the k-th Read of a run (k = reads) is as C10 says:
\* the Read raised nothing, the k-th input byte (or 0) is in the cell under
\* the cursor, and exactly one byte was consumed per Read while bytes were
\* left.
ReadDoneRight ==
    /\ pc \notin {"TypeError", "ValueError"}
    /\ ptr = last.cursor
    /\ buffer[ptr + 1] = InputByte(reads)
    /\ input_file.pos = IF reads <= Len(input_file.data) THEN reads ELSE Len(input_file.data)

\* C10: a Read stores into the cell under the cursor the next unread byte of
\* the input, consuming exactly one byte per Read in input order (the k-th
\* Read gets the k-th byte); when no byte is left, or the input source is
\* None, it stores 0 and is no error; so ",.;" with the input byte 0x41
\* outputs exactly 0x41 and halts.
C10_ReadStoresNextInputByte ==
    /\ (InputIsBytes /\ last.token = "ReadToken") => ReadDoneRight
    /\ (Ended /\ source_code.code = <<",", ".", ";">> /\ input_file.data = <<65>>
              /\ num_cycles_limit \notin 0..1)
          => pc = "halted" /\ output_file.data = <<65>>

\* C10, the part the code keeps: the same, for every input source but a real
\* binary stream that still has a byte to deliver (None, a text stream of
\* code points below 256, an instance of typing.BinaryIO, any stream at its
\* end).
C10_ReadOnOtherSources ==
    /\ (InputIsBytes /\ last.token = "ReadToken"
          /\ ~(input_file.kind = "BytesIO" /\ reads <= Len(input_file.data)))
          => ReadDoneRight
    /\ (Ended /\ source_code.code = <<",", ".", ";">> /\ input_file.data = <<65>>
              /\ num_cycles_limit \notin 0..1 /\ input_file.kind # "BytesIO")
          => pc = "halted" /\ output_file.data = <<65>>

\* s is a prefix of t.
IsPrefix(s, t) == Len(s) <= Len(t) /\ \A i \in 1..Len(s) : s[i] = t[i]

\* C11: the output is append-only and is, at every point of a run, the
\* sequence of the values the cell under the cursor held at each Print
\* dispatched so far, in dispatch order, one byte per Print; it is still so
\* when the run has ended by TimeoutError or by the IndexError of a fetch
\* ("+++.;" outputs exactly the single byte 3).
C11_OutputIsPrintedValues ==
    /\ [](output_file.data = printed)
    /\ [](Len(output_file.data) = Len(printed))
    /\ [][IsPrefix(output_file.data, output_file'.data)]_vars
    /\ []((pc = "halted" /\ source_code.code = <<"+", "+", "+", ".", ";">>)
             => output_file.data = <<3>>)

\* C11, the part the code keeps: the output is append-only, on every sink; a
\* binary sink holds exactly the printed values, one byte per Print, also
\* after a TimeoutError or an IndexError; a text sink holds the UTF-8
\* encoding of the characters chr(value), which is the printed values as
\* long as every one of them is below 128.
C11_OutputOnBinarySinks ==
    /\ [](output_file.kind = "BytesIO" => output_file.data = printed)
    /\ []((\A i \in 1..Len(printed) : printed[i] < 128) => output_file.data = printed)
    /\ [](output_file.kind = "TextIOWrapper" => output_file.data = TextWrite(<<>>, printed))
    /\ [][IsPrefix(output_file.data, output_file'.data)]_vars
    /\ []((pc = "halted" /\ source_code.code = <<"+", "+", "+", ".", ";">>)
             => output_file.data = <<3>>)

\* A run that printed a value above 127 on a binary sink and then ended in
\* TimeoutError or IndexError with the byte in the output.
C11_Reach_OutputKeptAfterFailure ==
    /\ pc \in {"TimeoutError", "IndexError"}
    /\ output_file.kind = "BytesIO"
    /\ Len(printed) = 1
    /\ printed[1] = 255
    /\ output_file.data = printed

\* The token at the instruction address, when the address is in range.
TokenAtAddress == code[1][code_pt + 1]

\* C12: when the instruction at the current address is Halt, the run ends
\* successfully at that turn without dispatching it: every tape cell, the
\* cursor, the unread input, the output (and the cycle counter and the
\* count of dispatches) are exactly what they were before the turn, whatever
\* the cycle counter holds; and once halted no instruction is dispatched.
C12_HaltEndsRunUntouched ==
    /\ [][(pc = "exec" /\ AddressInRange /\ TokenAtAddress = "ExitToken")
             => /\ pc' = "halted"
                /\ UNCHANGED << code_pt, code, ctxvars, histvars >>]_vars
    /\ [][pc = "halted" => (pc' = "halted" /\ dispatched' = dispatched)]_vars

\* C12 witness: a run has halted at an ExitToken that is not the first
\* instruction, with what it printed in the output and the cycle counter at 0.
C12_Witness_HaltedAfterWork ==
    /\ pc = "halted"
    /\ code_pt > 0
    /\ code[1][code_pt + 1] = "ExitToken"
    /\ printed # <<>>
    /\ output_file.data # <<>>
    /\ num_cycles_left = 0
    /\ dispatched = num_cycles_limit

\* C13 as claimed: the cycle test comes before the fetch and before the
\* Halt test, so a turn of Code.exec that begins with the cycle counter at 0
\* ends the run in TimeoutError whatever is at the instruction address, an
\* ExitToken and an address outside [0, len(Program)) included.
C13_FuelTestFirst ==
    [][(pc = "exec" /\ num_cycles_left = 0) => pc' = "TimeoutError"]_vars

\* C13 as the code has it: the fetch and the Halt test come before the
\* cycle test. A turn that begins with the cycle counter at 0 ends the run
\* in IndexError when the address is outside [0, len(Program)), halts it
\* when the address holds an ExitToken, and ends it in TimeoutError only
\* when the address holds an instruction to dispatch; it dispatches nothing
\* in any of the three.
C13_FetchAndHaltTestFirst ==
    [][(pc = "exec" /\ num_cycles_left = 0)
          => /\ pc' = IF ~AddressInRange THEN "IndexError"
                      ELSE IF TokenAtAddress = "ExitToken" THEN "halted"
                      ELSE "TimeoutError"
             /\ UNCHANGED << code_pt, code, ctxvars, histvars >>]_vars

\* C13 witness: a run that had used up its cycles (a limit above 0) met an
\* ExitToken with the counter at 0 and halted.
C13_Witness_HaltAtZeroFuel ==
    /\ pc = "halted"
    /\ num_cycles_limit > 0
    /\ num_cycles_left = 0
    /\ last.token = "GoToToken"

\* A run ended in IndexError with the counter at 0, ...
C13_Reach_IndexErrorAtZeroFuel ==
    /\ pc = "IndexError"
    /\ num_cycles_limit > 0
    /\ num_cycles_left = 0

\* ... and a run ended in TimeoutError at an instruction to dispatch.
C13_Reach_TimeoutAtInstruction ==
    /\ pc = "TimeoutError"
    /\ num_cycles_limit > 0
    /\ num_cycles_left = 0
    /\ AddressInRange
    /\ TokenAtAddress # "ExitToken"


\* Code.exec is about to call Context.exec: the address holds a token that
\* is not the ExitToken.
CallsContextExec ==
    /\ pc = "exec"
    /\ AddressInRange
    /\ TokenAtAddress # "ExitToken"

\* C14: Context.exec never dispatches an instruction when the cycle counter
\* is 0 or less, whatever signed limit the run was started with: it ends the
\* run in TimeoutError instead, so the counter is never decremented below 0.
C14_NoDispatchWithoutFuel ==
    /\ [][(CallsContextExec /\ num_cycles_left <= 0)
             => /\ pc' = "TimeoutError"
                /\ dispatched' = dispatched
                /\ num_cycles_left' = num_cycles_left]_vars
    /\ [][num_cycles_left' < num_cycles_left => num_cycles_left' >= 0]_vars

\* What holds of C14 on the code: with a limit of 0 or more the counter
\* stays in 0..limit, and Context.exec called with the counter at 0
\* dispatches nothing and ends the run in TimeoutError. A run started with a
\* negative limit never ends in TimeoutError.
C14_NonNegativeLimits ==
    /\ [](num_cycles_limit >= 0 => num_cycles_left \in 0..num_cycles_limit)
    /\ [][(CallsContextExec /\ num_cycles_left = 0)
             => /\ pc' = "TimeoutError"
                /\ dispatched' = dispatched
                /\ num_cycles_left' = num_cycles_left]_vars
    /\ [](num_cycles_limit < 0 => pc # "TimeoutError")

\* A run started with limit -1 has dispatched instructions, the counter
\* going further below 0 with each.
C14_Reach_DispatchBelowZero ==
    /\ num_cycles_limit = -1
    /\ dispatched >= 2
    /\ num_cycles_left = num_cycles_limit - dispatched
    /\ last.token = "GoToToken"


\* Every cell of the tape but the one under the cursor is left as it was.
OtherCellsKept ==
    /\ Len(buffer') = Len(buffer)
    /\ \A i \in 1..Len(buffer) : i # ptr + 1 => buffer'[i] = buffer[i]

\* What the step from a call of Context.exec on token class t may change,
\* as C15 lists it.
FrameOf(t) ==
    /\ t \in {"PlusToken", "MinusToken"}
          => OtherCellsKept /\ UNCHANGED << ptr, input_file, output_file >>
    /\ t \in {"ForwardToken", "BackwardToken"}
          => UNCHANGED << buffer, input_file, output_file >>
    /\ t = "PrintToken" => UNCHANGED << buffer, ptr, input_file >>
    /\ t = "ReadToken"
          => /\ OtherCellsKept
             /\ UNCHANGED << ptr, output_file >>
             /\ input_file'.kind = input_file.kind
             /\ input_file'.data = input_file.data

\* C15: the frame of the instructions that do not jump. Plus and Minus
\* change only the cell under the cursor, Forward and Backward only the
\* cursor, Print only the output, Read only the cell under the cursor and
\* the input position; each of the six moves the instruction address to
\* exactly address + 1; and no instruction, GoTo included, changes the
\* program. (Inputs of bytes; every dispatch of a run.)
C15_FrameOfNonJumps ==
    [][(CallsContextExec /\ InputIsBytes /\ dispatched' # dispatched)
          => /\ code' = code
             /\ FrameOf(TokenAtAddress)
             /\ TokenAtAddress # "GoToToken"
                   => pc' = "exec" /\ code_pt' = code_pt + 1]_vars

\* What holds of C15 on the code: the frame of every dispatch, and the
\* move to address + 1 of each of the six unless it is a Read that raises
\* on a binary input stream (C10), which ends the run at its address.
C15_FrameButRaisingRead ==
    [][(CallsContextExec /\ InputIsBytes /\ dispatched' # dispatched)
          => /\ code' = code
             /\ FrameOf(TokenAtAddress)
             /\ (TokenAtAddress # "GoToToken" /\ pc' # "TypeError")
                   => pc' = "exec" /\ code_pt' = code_pt + 1
             /\ pc' = "TypeError"
                   => /\ TokenAtAddress = "ReadToken"
                      /\ input_file.kind = "BytesIO"
                      /\ code_pt' = code_pt]_vars

\* A Read has stored an input byte and the run went on at address + 1 ...
C15_Reach_ReadAdvanced ==
    /\ pc = "exec"
    /\ last.token = "ReadToken"
    /\ code_pt = last.at + 1
    /\ input_file.pos = 1
    /\ buffer[ptr + 1] = 65

\* ... and a Print on a tape of two cells, the cursor on the second, left
\* both cells and the cursor alone.
C15_Reach_PrintOnSecondCell ==
    /\ last.token = "PrintToken"
    /\ Len(buffer) = 2
    /\ ptr = 1
    /\ code_pt = last.at + 1


\* C16: cycle accounting. In every state of a run started with a limit
\* F >= 0, F minus the cycle counter is the number of instructions
\* dispatched so far; every dispatch, a GoTo included, lowers the counter by
\* exactly 1, and every other step (reaching the ExitToken, failing the
\* fetch at an out-of-range address, the TimeoutError itself) lowers it by 0.
C16_FuelAccounting ==
    /\ [](num_cycles_limit >= 0
             => num_cycles_limit - num_cycles_left = dispatched)
    /\ [][num_cycles_limit >= 0
             => IF dispatched' # dispatched
                THEN /\ CallsContextExec
                     /\ dispatched' = dispatched + 1
                     /\ num_cycles_left' = num_cycles_left - 1
                ELSE num_cycles_left' = num_cycles_left]_vars
    /\ [][(pc = "exec" /\ pc' = "exec" /\ num_cycles_limit >= 0)
             => num_cycles_left' = num_cycles_left - 1]_vars

\* C16 witness: a run with limit MaxFuel halted after two dispatches, the
\* last a GoTo, the counter two below the limit.
C16_Witness_GoToCountedThenHalt ==
    /\ pc = "halted"
    /\ num_cycles_limit = MaxFuel
    /\ dispatched = 2
    /\ num_cycles_left = MaxFuel - 2
    /\ last.token = "GoToToken"

\* A run ended in IndexError by a failed fetch after one dispatch, the
\* counter one below its limit.
C16_Reach_FetchFailureCostsNothing ==
    /\ pc = "IndexError"
    /\ num_cycles_limit > 1
    /\ dispatched = 1
    /\ num_cycles_left = num_cycles_limit - 1


\* The larger of two integers.
Max(a, b) == IF a >= b THEN a ELSE b

\* C17: in every state of Code.exec the instruction address is an integer
\* from 0 to max(255, len(Program)): it is never negative (the fetch never
\* indexes from the end of the program), and an address of 256 or more is
\* reached only by advancing by one from the address before, never by a GoTo.
C17_AddressBounds ==
    /\ [](code # <<>>
             => /\ code_pt \in 0..Max(ByteMask, Len(code[1]))
                /\ last.at \in 0..Max(ByteMask, Len(code[1])))
    /\ [](code = <<>> => code_pt = 0)
    /\ [][code_pt' >= ByteRange
             => (code_pt' = code_pt
                   \/ (code_pt' = code_pt + 1 /\ TokenAtAddress # "GoToToken"))]_vars
    /\ [][(CallsContextExec /\ TokenAtAddress = "GoToToken" /\ pc' = "exec")
             => code_pt' \in 0..ByteMask]_vars

\* C17 witness: in the long program a GoTo went to address 255, the
\* instruction there was dispatched, and the address is 256 by the advance.
C17_Witness_AdvanceTo256 ==
    /\ code_pt = ByteRange
    /\ last.token = "PlusToken"
    /\ last.at = ByteMask
    /\ dispatched = 3
    /\ Len(code[1]) = ByteRange + 1

\* A GoTo has put the address at 255, past the end of a short program.
C17_Reach_GoTo255PastEnd ==
    /\ code_pt = ByteMask
    /\ last.token = "GoToToken"
    /\ Len(code[1]) < ByteMask

====
